---- MODULE Spec2Model ----
(***************************************************************************)
(* A model of package sqload (src/sqload.go): ExtractQueryMap, which       *)
(* segments a text into named SQL queries, extractSql, which drops the     *)
(* comment lines of a query, and loadQueriesIntoStruct, which copies the   *)
(* queries into the tagged fields of a struct.                             *)
(*                                                                         *)
(* A Go string is a sequence of one-character strings, so that the regular *)
(* expressions of the package are computed character by character.         *)
(***************************************************************************)
EXTENDS Integers, Sequences, FiniteSets, TLC

VARIABLES
    items,       \* the lines the text under test was written from
    sql,         \* ExtractQueryMap: its argument
    rawQueries,  \* ExtractQueryMap: the pieces of the split
    idx,         \* ExtractQueryMap: position of the range loop in rawQueries
    queries,     \* ExtractQueryMap: the map under construction
    ret,         \* ExtractQueryMap: the returned (map, error)
    pc,          \* ExtractQueryMap: control state
    lines,       \* extractSql: its argument
    sqlOut,      \* extractSql: the string returned for lines
    sqlAgain,    \* extractSql: the string returned for the lines of sqlOut
    spc,         \* extractSql: control state
    v,           \* loadQueriesIntoStruct: the target value
    qmap,        \* loadQueriesIntoStruct: the queries argument
    queriesAndFields, \* loadQueriesIntoStruct: tag -> field index
    pending,     \* loadQueriesIntoStruct: keys the range loop has not visited
    bindErr,     \* loadQueriesIntoStruct: the returned error
    bpc,         \* loadQueriesIntoStruct: control state
    entry,       \* LoadFrom*: which of the exported functions was called
    fsys,        \* LoadFrom*: the files of the file system, in walk order
    filenames,   \* LoadFrom*: what findFilesWithExt returned
    loaded,      \* LoadFrom*: the returned (pointer, error)
    outcome,     \* MustLoadFrom*: the returned pointer or the panic value
    lpc          \* LoadFrom*: control state

extractVars == <<items, sql, rawQueries, idx, queries, ret, pc>>
sqlVars == <<lines, sqlOut, sqlAgain, spc>>
bindVars == <<v, qmap, queriesAndFields, pending, bindErr, bpc>>
loadVars == <<entry, fsys, filenames, loaded, outcome, lpc>>
vars == <<extractVars, sqlVars, bindVars, loadVars>>

----------------------------------------------------------------------------
(* Characters and strings *)

VT == "\\v"
NEL == "\\u0085"
NBSP == "\\u00A0"

\* the class [ \t\n\r\f\v] of queryNamePattern and queryCommentPattern
PatternSpace == {" ", "\t", "\n", "\r", "\f", VT}

\* unicode.IsSpace, which strings.TrimSpace uses (Latin-1 part)
UnicodeSpace == {"\t", "\n", VT, "\f", "\r", " ", NEL, NBSP}

\* the class [a-zA-Z0-9_] of validQueryNamePattern
NameChars ==
    {"a", "b", "c", "d", "e", "f", "g", "h", "i", "j", "k", "l", "m",
     "n", "o", "p", "q", "r", "s", "t", "u", "v", "w", "x", "y", "z",
     "A", "B", "C", "D", "E", "F", "G", "H", "I", "J", "K", "L", "M",
     "N", "O", "P", "Q", "R", "S", "T", "U", "V", "W", "X", "Y", "Z",
     "0", "1", "2", "3", "4", "5", "6", "7", "8", "9", "_"}

\* the literal "-- query:" of queryNamePattern
Marker == <<"-", "-", " ", "q", "u", "e", "r", "y", ":">>

EmptyString == <<>>

Min(S) == CHOOSE x \in S : \A y \in S : x <= y

HasPrefixAt(s, i, p) ==
    /\ i + Len(p) - 1 <= Len(s)
    /\ SubSeq(s, i, i + Len(p) - 1) = p

\* the first position at or after i that holds no character of class
RECURSIVE SkipClass(_, _, _)
SkipClass(s, i, class) ==
    IF i <= Len(s) /\ s[i] \in class THEN SkipClass(s, i + 1, class) ELSE i

\* strings.Join
RECURSIVE Join(_, _)
Join(strs, sep) ==
    IF Len(strs) = 0 THEN EmptyString
    ELSE IF Len(strs) = 1 THEN strs[1]
    ELSE strs[1] \o sep \o Join(Tail(strs), sep)

\* strings.TrimSpace
RECURSIVE TrimLeft(_)
TrimLeft(s) ==
    IF Len(s) > 0 /\ s[1] \in UnicodeSpace THEN TrimLeft(Tail(s)) ELSE s

RECURSIVE TrimRight(_)
TrimRight(s) ==
    IF Len(s) > 0 /\ s[Len(s)] \in UnicodeSpace
    THEN TrimRight(SubSeq(s, 1, Len(s) - 1))
    ELSE s

TrimSpace(s) == TrimRight(TrimLeft(s))

----------------------------------------------------------------------------
(* regexp: FindAllStringIndex and Split.  A pattern is given by m, where   *)
(* m[i] is the position after the match that begins at i, 0 when no match  *)
(* begins at i; the patterns split on match no empty string.               *)

RECURSIVE FindAllIndex(_, _, _)
FindAllIndex(s, m, pos) ==
    LET starts == {i \in pos..Len(s) : m[i] # 0}
    IN  IF starts = {} THEN <<>>
        ELSE LET b == Min(starts)
             IN  <<<<b, m[b]>>>> \o FindAllIndex(s, m, m[b])

RECURSIVE SplitPieces(_, _, _)
SplitPieces(s, matches, beg) ==
    IF Len(matches) = 0 THEN <<>>
    ELSE <<SubSeq(s, beg, matches[1][1] - 1)>>
             \o SplitPieces(s, Tail(matches), matches[1][2])

\* (*Regexp).Split(s, -1)
RegexpSplit(s, m) ==
    IF Len(s) = 0 THEN <<EmptyString>>
    ELSE LET matches == FindAllIndex(s, m, 1)
             n == Len(matches)
             beg == IF n = 0 THEN 1 ELSE matches[n][2]
             end == IF n = 0 THEN 0 ELSE matches[n][1] - 1
         IN  SplitPieces(s, matches, 1)
                 \o (IF end # Len(s) THEN <<SubSeq(s, beg, Len(s))>> ELSE <<>>)

\* queryNamePattern as it would be with the space after "--" optional
queryNamePatternOptionalSpace(s, i) ==
    LET j == SkipClass(s, i, PatternSpace)
        k == IF HasPrefixAt(s, j, <<"-", "-">>)
             THEN SkipClass(s, j + 2, PatternSpace) ELSE j
        word == <<"q", "u", "e", "r", "y", ":">>
    IN  IF HasPrefixAt(s, j, <<"-", "-">>) /\ HasPrefixAt(s, k, word)
        THEN k + Len(word) ELSE 0

\* queryNamePattern as it would be without the white space before the marker
queryNamePatternMarkerOnly(s, i) ==
    IF HasPrefixAt(s, i, Marker) THEN i + Len(Marker) ELSE 0

\* queryNamePattern = `[ \t\n\r\f\v]*-- query:`, matched at position i
queryNamePattern(s, i) ==
    LET j == SkipClass(s, i, PatternSpace)
    IN  IF HasPrefixAt(s, j, Marker) THEN j + Len(Marker) ELSE 0

\* newLinePattern as it would be if it were "\n"
newLinePatternLineFeed(s, i) == IF s[i] = "\n" THEN i + 1 ELSE 0

\* newLinePattern = "\r?\n", matched at position i
newLinePattern(s, i) ==
    IF s[i] = "\r" /\ i + 1 <= Len(s) /\ s[i + 1] = "\n" THEN i + 2
    ELSE IF s[i] = "\n" THEN i + 1
    ELSE 0

\* validQueryNamePattern = `^[a-zA-Z0-9_]+$`, MatchString
validQueryNamePattern(s) ==
    /\ Len(s) >= 1
    /\ \A i \in 1..Len(s) : s[i] \in NameChars

\* queryCommentPattern as it would be if white space had to follow the "--"
queryCommentPatternNeedsSpace(s) ==
    \E i \in 1..Len(s) :
        \E j \in i..SkipClass(s, i, PatternSpace) :
            /\ HasPrefixAt(s, j, <<"-", "-">>)
            /\ \E k \in (j + 3)..SkipClass(s, j + 2, PatternSpace) :
                   \A n \in k..Len(s) : s[n] # "\n"

\* queryCommentPattern = `[ \t\n\r\f\v]*--[ \t\n\r\f\v]*(.*)$`, MatchString:
\* the pattern is not anchored at the start, "." is any character but "\n"
\* and "$" is the end of the text
queryCommentPattern(s) ==
    \E i \in 1..Len(s) :
        \E j \in i..SkipClass(s, i, PatternSpace) :
            /\ HasPrefixAt(s, j, <<"-", "-">>)
            /\ \E k \in (j + 2)..SkipClass(s, j + 2, PatternSpace) :
                   \A n \in k..Len(s) : s[n] # "\n"

----------------------------------------------------------------------------
(* extractSql *)

\* SelectLines as it would be if blank lines were dropped with the comments
RECURSIVE SelectLinesSkipBlank(_)
SelectLinesSkipBlank(ls) ==
    IF Len(ls) = 0 THEN <<>>
    ELSE (IF ~queryCommentPattern(ls[1]) /\ Len(ls[1]) > 0 THEN <<ls[1]>> ELSE <<>>)
             \o SelectLinesSkipBlank(Tail(ls))

RECURSIVE SelectLines(_)
SelectLines(ls) ==
    IF Len(ls) = 0 THEN <<>>
    ELSE (IF ~queryCommentPattern(ls[1]) THEN <<ls[1]>> ELSE <<>>)
             \o SelectLines(Tail(ls))

extractSql(ls) == Join(SelectLines(ls), <<"\n">>)

----------------------------------------------------------------------------
(* Errors: fmt.Errorf("%w: <msg> %s", ErrCannotLoadQueries, arg) *)

ErrCannotLoadQueries == "cannot load queries"

NoError == [wraps |-> "", msg |-> "", arg |-> EmptyString]

Errorf(msg, arg) == [wraps |-> ErrCannotLoadQueries, msg |-> msg, arg |-> arg]

\* make(map[string]string)
EmptyMap == <<>>

\* m[k] = val
MapPut(m, k, val) ==
    [x \in (DOMAIN m) \cup {k} |-> IF x = k THEN val ELSE m[x]]

NotReturned == [queries |-> EmptyMap, isNil |-> TRUE, err |-> NoError]

\* a (*V, error) pair: the pointer is nil, or leads to a struct with fields
NothingLoaded == [isNil |-> TRUE, fields |-> <<>>, err |-> NoError]

\* the state of a Must* call that has neither returned nor panicked
NoOutcome == [panicked |-> FALSE, value |-> NoError, isNil |-> TRUE, fields |-> <<>>]

----------------------------------------------------------------------------
(* ExtractQueryMap, one action per step of the function *)

\* SplitSql as it would be if the loop ranged over rawQueries, first piece
\* included
SplitSqlKeepPrelude ==
    /\ pc = "start"
    /\ LET raw == RegexpSplit(sql, [i \in 1..Len(sql) |-> queryNamePattern(sql, i)])
       IN  /\ rawQueries' = raw
           /\ IF Len(raw) <= 1
              THEN /\ ret' = [queries |-> queries, isNil |-> FALSE, err |-> NoError]
                   /\ pc' = "done"
                   /\ idx' = idx
              ELSE /\ idx' = 1
                   /\ pc' = "loop"
                   /\ ret' = ret
    /\ UNCHANGED <<items, sql, queries, sqlVars, bindVars, loadVars>>

\* rawQueries := queryNamePattern.Split(sql, -1), and the return of an empty
\* map when the split gives at most one piece
SplitSql ==
    /\ pc = "start"
    /\ LET raw == RegexpSplit(sql, [i \in 1..Len(sql) |-> queryNamePattern(sql, i)])
       IN  /\ rawQueries' = raw
           /\ IF Len(raw) <= 1
              THEN /\ ret' = [queries |-> queries, isNil |-> FALSE, err |-> NoError]
                   /\ pc' = "done"
                   /\ idx' = idx
              ELSE /\ idx' = 2
                   /\ pc' = "loop"
                   /\ ret' = ret
    /\ UNCHANGED <<items, sql, queries, sqlVars, bindVars, loadVars>>

\* PieceLines as it would be if each line were trimmed, not the piece
PieceLinesTrimEachLine(q) ==
    LET ls == RegexpSplit(q, [i \in 1..Len(q) |-> newLinePattern(q, i)])
    IN  [k \in 1..Len(ls) |-> TrimSpace(ls[k])]

\* lines of one piece: newLinePattern.Split(strings.TrimSpace(q), -1)
PieceLines(q) ==
    LET t == TrimSpace(q)
    IN  RegexpSplit(t, [i \in 1..Len(t) |-> newLinePattern(t, i)])

\* NameAccepted as it would be if every name that is not empty were valid
NameAcceptedNotEmpty(queryName) == Len(queryName) >= 1

\* whether the loop body accepts the name of piece q
NameAccepted(queryName) == validQueryNamePattern(queryName)

\* StoreQuery as it would be if a declared name were never overwritten
StoreQueryKeepFirst(m, ls) ==
    IF ls[1] \in DOMAIN m THEN m ELSE MapPut(m, ls[1], extractSql(Tail(ls)))

\* StoreQuery as it would be if a name without body lines were not stored
StoreQuerySkipEmpty(m, ls) ==
    IF Len(ls) = 1 THEN m ELSE MapPut(m, ls[1], extractSql(Tail(ls)))

\* what the loop body stores for the piece with these lines
StoreQuery(m, ls) == MapPut(m, ls[1], extractSql(Tail(ls)))

\* InvalidNameReturn as it would be if the map built so far were returned
InvalidNameReturnPartial(m, queryName) ==
    [queries |-> m, isNil |-> FALSE,
     err |-> Errorf("invalid query name", queryName)]

\* what ExtractQueryMap returns when a name is not valid
InvalidNameReturn(m, queryName) ==
    [queries |-> EmptyMap, isNil |-> TRUE,
     err |-> Errorf("invalid query name", queryName)]

\* one iteration of "for _, q := range rawQueries[1:]"
LoopBody ==
    /\ pc = "loop"
    /\ idx <= Len(rawQueries)
    /\ LET ls == PieceLines(rawQueries[idx])
           queryName == ls[1]
       IN  IF ~NameAccepted(queryName)
           THEN /\ ret' = InvalidNameReturn(queries, queryName)
                /\ pc' = "done"
                /\ UNCHANGED <<queries, idx>>
           ELSE /\ queries' = StoreQuery(queries, ls)
                /\ idx' = idx + 1
                /\ UNCHANGED <<ret, pc>>
    /\ UNCHANGED <<items, sql, rawQueries, sqlVars, bindVars, loadVars>>

\* return queries, nil
LoopEnd ==
    /\ pc = "loop"
    /\ idx > Len(rawQueries)
    /\ ret' = [queries |-> queries, isNil |-> FALSE, err |-> NoError]
    /\ pc' = "done"
    /\ UNCHANGED <<items, sql, rawQueries, idx, queries, sqlVars, bindVars, loadVars>>

\* the loop of ExtractQueryMap from piece k on, as a function of the pieces
RECURSIVE ExtractLoop(_, _, _)
ExtractLoop(raw, k, m) ==
    IF k > Len(raw) THEN [queries |-> m, isNil |-> FALSE, err |-> NoError]
    ELSE LET ls == PieceLines(raw[k])
         IN  IF ~NameAccepted(ls[1]) THEN InvalidNameReturn(m, ls[1])
             ELSE ExtractLoop(raw, k + 1, StoreQuery(m, ls))

\* ExtractQueryMap(text) as a function: what the actions above leave in ret
ExtractQueryMap(text) ==
    LET raw == RegexpSplit(text, [i \in 1..Len(text) |-> queryNamePattern(text, i)])
    IN  IF Len(raw) <= 1
        THEN [queries |-> EmptyMap, isNil |-> FALSE, err |-> NoError]
        ELSE ExtractLoop(raw, 2, EmptyMap)

----------------------------------------------------------------------------
(* The texts ExtractQueryMap is applied to *)

MaxItems == 4
MaxChunks == 4

SeqsUpTo(S, n) == UNION {[1..k -> S] : k \in 0..n}

RECURSIVE Concat(_)
Concat(strs) == IF Len(strs) = 0 THEN EmptyString ELSE strs[1] \o Concat(Tail(strs))

\* names written after a marker: two valid ones, one with a character outside
\* [a-zA-Z0-9_], and the empty name
QueryNames == {<<"A">>, <<"B">>, <<"a", "-">>, EmptyString}

\* lines written under a name: SQL, a comment line, a blank line
BodyLines == {<<"S">>, <<"-", "-", "c">>, EmptyString}

NameItem(n) == [kind |-> "name", text |-> n]
LineItem(t) == [kind |-> "line", text |-> t]
Items == {NameItem(n) : n \in QueryNames} \cup {LineItem(t) : t \in BodyLines}

\* the line of the text an item stands for
ItemLine(it) ==
    IF it.kind = "name" THEN Marker \o <<" ">> \o it.text ELSE it.text

\* the text written from a list of items, one per line
ItemsText(its) == Join([i \in 1..Len(its) |-> ItemLine(its[i])], <<"\n">>)

\* pieces of text put together freely: the marker, a look-alike without the
\* space, white space, a name, a dash
Chunks ==
    {Marker, <<"-", "-", "q", "u", "e", "r", "y", ":">>, <<" ">>, <<"\n">>,
     <<"A">>, <<"-">>}

Select1 == <<"S", "E", "L", "E", "C", "T", " ", "1", ";">>
Select2 == <<"S", "E", "L", "E", "C", "T", " ", "2", ";">>
AComment == <<"-", "-", " ", "a", " ", "c", "o", "m", "m", "e", "n", "t">>

\* "-- query: A\nSELECT 1;\n-- query: B\nSELECT 2;"
ScenarioA ==
    Marker \o <<" ", "A", "\n">> \o Select1 \o <<"\n">>
        \o Marker \o <<" ", "B", "\n">> \o Select2

\* "-- query: A\n-- a comment\nSELECT 1;"
ScenarioB == Marker \o <<" ", "A", "\n">> \o AComment \o <<"\n">> \o Select1

\* "-- query: \nSELECT 1;"
ScenarioC == Marker \o <<" ", "\n">> \o Select1

ScenarioTexts == {ScenarioA, ScenarioB, ScenarioC}

MaxRun == 2

\* the declaration of A with a run of white space before its marker and a
\* run of spaces and tabs after its name, alone or after the query B, with
\* or without a body line
SpacedTexts ==
    {before \o run \o Marker \o <<" ", "A">> \o trail \o after :
        before \in {EmptyString, Marker \o <<" ", "B", "\n", "T">>},
        run \in SeqsUpTo(PatternSpace, MaxRun),
        trail \in SeqsUpTo({" ", "\t"}, MaxRun),
        after \in {EmptyString, <<"\n", "S">>}}

SqlIdle ==
    /\ lines = <<>>
    /\ sqlOut = EmptyString
    /\ sqlAgain = EmptyString
    /\ spc = "idle"

BindIdle ==
    /\ v = [kind |-> "idle"]
    /\ qmap = EmptyMap
    /\ queriesAndFields = EmptyMap
    /\ pending = {}
    /\ bindErr = NoError
    /\ bpc = "idle"

LoadIdle ==
    /\ entry = "none"
    /\ fsys = <<>>
    /\ filenames = <<>>
    /\ loaded = NothingLoaded
    /\ outcome = NoOutcome
    /\ lpc = "idle"

ExtractIdle ==
    /\ items = <<>>
    /\ sql = EmptyString
    /\ rawQueries = <<>>
    /\ idx = 0
    /\ queries = EmptyMap
    /\ ret = NotReturned
    /\ pc = "idle"

Init ==
    /\ \/ \E its \in SeqsUpTo(Items, MaxItems) :
              items = its /\ sql = ItemsText(its)
       \/ \E cs \in SeqsUpTo(Chunks, MaxChunks) :
              items = <<>> /\ sql = Concat(cs)
       \/ \E t \in ScenarioTexts \cup SpacedTexts :
              items = <<>> /\ sql = t
    /\ rawQueries = <<>>
    /\ idx = 0
    /\ queries = EmptyMap
    /\ ret = NotReturned
    /\ pc = "start"
    /\ SqlIdle
    /\ BindIdle
    /\ LoadIdle

Next == SplitSql \/ LoopBody \/ LoopEnd

Spec == Init /\ [][Next]_vars

----------------------------------------------------------------------------
(* What a text written from items declares, read off the items themselves *)

Max(S) == CHOOSE x \in S : \A y \in S : x >= y

NamePos(its) == {p \in 1..Len(its) : its[p].kind = "name"}

\* the lines written under the name at position p, up to the next name
BodyOf(its, p) ==
    LET later == {q \in NamePos(its) : q > p}
        last == IF later = {} THEN Len(its) ELSE Min(later) - 1
    IN  [k \in 1..(last - p) |-> its[p + k].text]

DeclaredNames(its) == {its[p].text : p \in NamePos(its)}

FirstPos(its, n) == Min({p \in NamePos(its) : its[p].text = n})
LastPos(its, n) == Max({p \in NamePos(its) : its[p].text = n})

\* a name of [A-Za-z0-9_]+
WellFormedName(n) == Len(n) >= 1 /\ \A i \in 1..Len(n) : n[i] \in NameChars

\* a text of well-formed segments: it begins with a marker and every name is valid
WellFormed(its) ==
    /\ Len(its) > 0 => its[1].kind = "name"
    /\ \A p \in NamePos(its) : WellFormedName(its[p].text)

IsBlank(l) == \A i \in 1..Len(l) : l[i] \in UnicodeSpace

\* a line that begins with "--" once its leading white space is stripped
BeginsWithDashes(l) == HasPrefixAt(l, SkipClass(l, 1, PatternSpace), <<"-", "-">>)

RECURSIVE DropTrailingBlank(_)
DropTrailingBlank(bl) ==
    IF Len(bl) > 0 /\ IsBlank(bl[Len(bl)])
    THEN DropTrailingBlank(SubSeq(bl, 1, Len(bl) - 1))
    ELSE bl

RECURSIVE NotBeginningWithDashes(_)
NotBeginningWithDashes(bl) ==
    IF Len(bl) = 0 THEN <<>>
    ELSE (IF BeginsWithDashes(bl[1]) THEN <<>> ELSE <<bl[1]>>)
             \o NotBeginningWithDashes(Tail(bl))

\* the body a segment with body lines bl stands for: its lines up to the last
\* non-blank one, without those that begin with "--"
ExpectedBody(bl) == Join(NotBeginningWithDashes(DropTrailingBlank(bl)), <<"\n">>)

ContainsMarker(s) == \E i \in 1..Len(s) : HasPrefixAt(s, i, Marker)

\* strings.Split(s, "\n")
SplitLF(s) == RegexpSplit(s, [i \in 1..Len(s) |-> IF s[i] = "\n" THEN i + 1 ELSE 0])

Returned == pc = "done"
FromItems == sql = ItemsText(items)

----------------------------------------------------------------------------
(* Claims about ExtractQueryMap, checked under Spec *)

\* C1: for a text of well-formed segments ExtractQueryMap returns no error and
\* a map with exactly one entry per distinct declared name, and the entry of a
\* name declared more than once holds the body of its last occurrence.
C1_OneEntryPerNameLastWins ==
    (Returned /\ FromItems /\ WellFormed(items)) =>
        /\ ret.err = NoError
        /\ ~ret.isNil
        /\ DOMAIN ret.queries = DeclaredNames(items)
        /\ \A n \in DeclaredNames(items) :
               ret.queries[n] = ExpectedBody(BodyOf(items, LastPos(items, n)))

\* a name declared twice with different bodies has been segmented
C1_Witness ==
    /\ Returned /\ FromItems /\ WellFormed(items)
    /\ \E n \in DeclaredNames(items) :
           /\ FirstPos(items, n) # LastPos(items, n)
           /\ ExpectedBody(BodyOf(items, FirstPos(items, n)))
                  # ExpectedBody(BodyOf(items, LastPos(items, n)))
           /\ ret.queries[n] = ExpectedBody(BodyOf(items, LastPos(items, n)))

\* C2: for a text with no occurrence of "-- query:" (the empty text and texts
\* with look-alikes such as "--query:" included) ExtractQueryMap returns an
\* empty map and no error.
C2_NoMarkerEmptyMap ==
    (Returned /\ ~ContainsMarker(sql)) =>
        ret = [queries |-> EmptyMap, isNil |-> FALSE, err |-> NoError]

\* a text with the look-alike "--query:" and no marker has been segmented
C2_Witness ==
    /\ Returned /\ ~ContainsMarker(sql)
    /\ \E i \in 1..Len(sql) :
           HasPrefixAt(sql, i, <<"-", "-", "q", "u", "e", "r", "y", ":", "A">>)
    /\ ret.queries = EmptyMap

\* C3: if the declared name of any segment (the first line of the trimmed
\* piece after a marker) is empty or has a character outside [A-Za-z0-9_],
\* ExtractQueryMap fails with the invalid-name error and returns no map: the
\* entries of the valid segments before the bad one are not in the result.
C3_InvalidNameNoMap ==
    (Returned /\ (\/ \E k \in 2..Len(rawQueries) :
                        ~WellFormedName(PieceLines(rawQueries[k])[1])
                  \/ FromItems /\ <<"a", "-">> \in DeclaredNames(items))) =>
        /\ ret.isNil
        /\ ret.queries = EmptyMap
        /\ ret.err.wraps = ErrCannotLoadQueries
        /\ ret.err.msg = "invalid query name"
        /\ ~WellFormedName(ret.err.arg)

\* the call failed on a bad name after it had stored a valid segment
C3_Witness ==
    /\ Returned
    /\ queries # EmptyMap
    /\ ret.err.msg = "invalid query name"
    /\ ret.isNil

\* C4 as claimed: "-- query: \nSELECT 1;" fails with the invalid-name error
\* and the name the error identifies is the empty string.
C4_EmptyNameReported ==
    (Returned /\ sql = ScenarioC) =>
        ret.err = Errorf("invalid query name", EmptyString)

\* C4 as amended: "-- query: \nSELECT 1;" fails with the invalid-name error
\* and the name the error identifies is "SELECT 1;", the first line of the
\* trimmed piece; when that line is a valid name, as in "-- query: \nS", the
\* call does not fail and stores the name with an empty body.
C4_NextLineTakenAsName ==
    Returned =>
        /\ sql = ScenarioC =>
               /\ ret.err = Errorf("invalid query name", Select1)
               /\ ret.isNil
        /\ (FromItems /\ items = <<NameItem(EmptyString), LineItem(<<"S">>)>>) =>
               /\ ret.err = NoError
               /\ ret.queries = MapPut(EmptyMap, <<"S">>, EmptyString)

\* the text of scenario C has been segmented
C4_Witness == Returned /\ sql = ScenarioC /\ ret.err # NoError

----------------------------------------------------------------------------
(* C6: blank lines at the two ends of a body *)

HasNonBlank(bl) == \E k \in 1..Len(bl) : ~IsBlank(bl[k])

\* the number of blank lines before the first non-blank line of bl
Lead(bl) == Min({k \in 1..Len(bl) : ~IsBlank(bl[k])}) - 1

\* the number of blank lines after the last non-blank line of bl
Trail(bl) == Len(bl) - Max({k \in 1..Len(bl) : ~IsBlank(bl[k])})

\* the blank lines before the first non-blank line are in the body, at the
\* same place
LeadPreserved(bl, body) ==
    LET L == SplitLF(body)
        n == Lead(bl)
    IN  /\ Len(L) >= n
        /\ \A k \in 1..n : L[k] = EmptyString
        /\ ~BeginsWithDashes(bl[n + 1]) => (Len(L) > n /\ L[n + 1] = bl[n + 1])

\* the blank lines after the last non-blank line are in the body, at the
\* same place
TrailPreserved(bl, body) ==
    LET L == SplitLF(body)
        n == Trail(bl)
    IN  /\ Len(L) >= n
        /\ \A k \in 1..n : L[Len(L) - k + 1] = EmptyString
        /\ ~BeginsWithDashes(bl[Len(bl) - n]) =>
               (Len(L) > n /\ L[Len(L) - n] = bl[Len(bl) - n])

\* the blank lines after the last non-blank line are not in the body
TrailDropped(bl, body) ==
    LET L == SplitLF(body)
        kept == Len(NotBeginningWithDashes(bl)) - Trail(bl)
    IN  /\ Len(L) = (IF kept = 0 THEN 1 ELSE kept)
        /\ ~BeginsWithDashes(bl[Len(bl) - Trail(bl)]) =>
               L[Len(L)] = bl[Len(bl) - Trail(bl)]

\* C6 as claimed: the blank lines between the name line and the first
\* non-blank body line, and those after the last non-blank body line, are in
\* the returned body with the same count and position.
C6_BlankLinesPreserved ==
    (Returned /\ FromItems /\ WellFormed(items)) =>
        /\ ret.err = NoError
        /\ \A n \in DeclaredNames(items) :
               LET bl == BodyOf(items, LastPos(items, n))
               IN  HasNonBlank(bl) =>
                       /\ LeadPreserved(bl, ret.queries[n])
                       /\ TrailPreserved(bl, ret.queries[n])

\* C6 as amended: the blank lines between the name line and the first
\* non-blank body line are in the returned body with the same count and
\* position; the blank lines after the last non-blank body line are not in it.
C6_LeadingKeptTrailingDropped ==
    (Returned /\ FromItems /\ WellFormed(items)) =>
        /\ ret.err = NoError
        /\ \A n \in DeclaredNames(items) :
               LET bl == BodyOf(items, LastPos(items, n))
               IN  HasNonBlank(bl) =>
                       /\ LeadPreserved(bl, ret.queries[n])
                       /\ TrailDropped(bl, ret.queries[n])

\* a body with a blank line before and after its SQL has been segmented
C6_Witness ==
    /\ Returned /\ FromItems /\ WellFormed(items)
    /\ \E n \in DeclaredNames(items) :
           LET bl == BodyOf(items, LastPos(items, n))
           IN  /\ HasNonBlank(bl)
               /\ Lead(bl) >= 1
               /\ Trail(bl) >= 1
               /\ ret.queries[n] = <<"\n", "S">>

----------------------------------------------------------------------------
(* extractSql applied to a list of lines, and again to the lines of its     *)
(* result                                                                  *)

MaxLines == 3

\* lines handed to extractSql: blank, SQL, indented SQL, a comment, an
\* indented comment, SQL followed by a comment, "--" inside SQL, a single
\* dash, and a string that holds a line break
SqlLines ==
    {EmptyString, <<"S">>, <<" ", "S">>, <<"-", "-", "c">>,
     <<" ", "-", "-", " ", "c">>, <<"S", " ", "-", "-", "c">>,
     <<"'", "-", "-", "'">>, <<"-">>, <<"-", "-", "c", "\n", "S">>}

SqlInit ==
    /\ lines \in SeqsUpTo(SqlLines, MaxLines)
    /\ sqlOut = EmptyString
    /\ sqlAgain = EmptyString
    /\ spc = "start"
    /\ ExtractIdle
    /\ BindIdle
    /\ LoadIdle

\* sqlOut := extractSql(lines)
CallExtractSql ==
    /\ spc = "start"
    /\ sqlOut' = extractSql(lines)
    /\ spc' = "once"
    /\ UNCHANGED <<lines, sqlAgain, extractVars, bindVars, loadVars>>

\* sqlAgain := extractSql(strings.Split(sqlOut, "\n"))
CallExtractSqlAgain ==
    /\ spc = "once"
    /\ sqlAgain' = extractSql(SplitLF(sqlOut))
    /\ spc' = "twice"
    /\ UNCHANGED <<lines, sqlOut, extractVars, bindVars, loadVars>>

SqlNext == CallExtractSql \/ CallExtractSqlAgain

SpecSql == SqlInit /\ [][SqlNext]_vars

NoLineBreakIn(ls) == \A k \in 1..Len(ls) : \A i \in 1..Len(ls[k]) : ls[k][i] # "\n"

\* C5 as claimed: the string extractSql returns is the lines that do not begin
\* with "--" once leading white space is stripped, in their order, each
\* verbatim, joined with "\n"; a line with "--" after or inside SQL is kept.
C5_OnlyLinesBeginningWithDashesRemoved ==
    (spc # "start" /\ NoLineBreakIn(lines)) =>
        sqlOut = Join(NotBeginningWithDashes(lines), <<"\n">>)

\* C7: for lines that hold no line break, extractSql of the lines of
\* extractSql(lines) is extractSql(lines) again, and no line of
\* extractSql(lines) begins with "--".
C7_StrippingIdempotent ==
    NoLineBreakIn(lines) =>
        /\ spc = "twice" => sqlAgain = sqlOut
        /\ spc # "start" =>
               \A k \in 1..Len(SplitLF(sqlOut)) : ~BeginsWithDashes(SplitLF(sqlOut)[k])

\* stripping was run twice on lines of which some were removed and some kept
C7_Witness ==
    /\ spc = "twice"
    /\ NoLineBreakIn(lines)
    /\ \E k \in 1..Len(lines) : BeginsWithDashes(lines[k])
    /\ sqlOut # EmptyString
    /\ sqlAgain = sqlOut

----------------------------------------------------------------------------
(* loadQueriesIntoStruct.  The target v is what reflect sees of it: its     *)
(* kind; for a pointer, whether it is nil and the kind of its element; for  *)
(* a pointer to a struct, the fields of the struct in declaration order.    *)

MaxFields == 2

NotAPointerToStruct == Errorf("v is not a pointer to a struct", EmptyString)
NilTarget == Errorf("v is nil", EmptyString)

\* TargetError as it would be if the element kind were looked at before nil
TargetErrorElemFirst(t) ==
    IF t.kind # "ptr" THEN NotAPointerToStruct
    ELSE IF t.elemKind # "struct" THEN NotAPointerToStruct
    ELSE IF t.isNil THEN NilTarget
    ELSE NoError

\* the checks on reflect.ValueOf(v), in their order
TargetError(t) ==
    IF t.kind # "ptr" THEN NotAPointerToStruct
    ELSE IF t.isNil THEN NilTarget
    ELSE IF t.elemKind # "struct" THEN NotAPointerToStruct
    ELSE NoError

\* TagIndex as it would be if the empty tag were collected too
TagIndexWithEmpty(fields) ==
    LET tags == {fields[i].tag : i \in 1..Len(fields)}
    IN  [t \in tags |-> Max({i \in 1..Len(fields) : fields[i].tag = t})]

\* queriesAndFields after the loop over the fields: each non-empty tag with
\* the index of the last field that carries it
TagIndex(fields) ==
    LET tags == {fields[i].tag : i \in {j \in 1..Len(fields) : fields[j].tag # EmptyString}}
    IN  [t \in tags |-> Max({i \in 1..Len(fields) : fields[i].tag = t})]

\* field.CanSet() && field.Kind() == reflect.String, for a field of the
\* struct a pointer leads to
Assignable(f) == f.exported /\ f.kind = "string"

\* VisitError as it would be if the field were checked before the lookup
VisitErrorFieldFirst(q, fields, fieldIndex, queryName) ==
    IF ~Assignable(fields[fieldIndex])
    THEN Errorf("field cannot be changed or is not a string", fields[fieldIndex].name)
    ELSE IF queryName \notin DOMAIN q
    THEN Errorf("could not find query", queryName)
    ELSE NoError

\* the error, if any, of one iteration of the range over queriesAndFields
VisitError(q, fields, fieldIndex, queryName) ==
    IF queryName \notin DOMAIN q
    THEN Errorf("could not find query", queryName)
    ELSE IF ~Assignable(fields[fieldIndex])
    THEN Errorf("field cannot be changed or is not a string", fields[fieldIndex].name)
    ELSE NoError

\* SetString as it would be if the query were trimmed on assignment
SetStringTrimmed(fields, fieldIndex, str) ==
    [fields EXCEPT ![fieldIndex].value = TrimSpace(str)]

\* field.SetString(sql)
SetString(fields, fieldIndex, str) ==
    [fields EXCEPT ![fieldIndex].value = str]

\* lines 170-180: the target is checked
CheckTarget ==
    /\ bpc = "start"
    /\ IF TargetError(v) # NoError
       THEN /\ bindErr' = TargetError(v)
            /\ bpc' = "done"
       ELSE /\ bpc' = "collect"
            /\ bindErr' = bindErr
    /\ UNCHANGED <<v, qmap, queriesAndFields, pending, extractVars, sqlVars, loadVars>>

\* lines 181-187: the tags of the fields are collected
CollectTags ==
    /\ bpc = "collect"
    /\ queriesAndFields' = TagIndex(v.fields)
    /\ pending' = DOMAIN TagIndex(v.fields)
    /\ bpc' = "range"
    /\ UNCHANGED <<v, qmap, bindErr, extractVars, sqlVars, loadVars>>

\* lines 188-198: one iteration of the range over the map queriesAndFields,
\* whose order Go leaves unspecified
RangeStep ==
    /\ bpc = "range"
    /\ \E queryName \in pending :
           LET fieldIndex == queriesAndFields[queryName]
               err == VisitError(qmap, v.fields, fieldIndex, queryName)
           IN  IF err # NoError
               THEN /\ bindErr' = err
                    /\ bpc' = "done"
                    /\ UNCHANGED <<v, pending>>
               ELSE /\ v' = [v EXCEPT !.fields = SetString(v.fields, fieldIndex, qmap[queryName])]
                    /\ pending' = pending \ {queryName}
                    /\ UNCHANGED <<bindErr, bpc>>
    /\ UNCHANGED <<qmap, queriesAndFields, extractVars, sqlVars, loadVars>>

\* line 199: return nil
RangeEnd ==
    /\ bpc = "range"
    /\ pending = {}
    /\ bindErr' = NoError
    /\ bpc' = "done"
    /\ UNCHANGED <<v, qmap, queriesAndFields, pending, extractVars, sqlVars, loadVars>>

----------------------------------------------------------------------------
(* The targets and maps loadQueriesIntoStruct is applied to *)

TagA == <<"A">>
TagB == <<"B">>
TagZ == <<"Z">>

\* a one-line query, and one with white space around it and a line break in it
QueryX == <<"X">>
QueryY == <<" ", "Y", "\n", "Z", " ">>

OldValue == <<"o", "l", "d">>

FieldName(i) == <<"F", CHOOSE d \in {"1", "2", "3", "4"} : d = ToString(i)>>

FieldShapes ==
    [tag : {EmptyString, TagA, TagB}, kind : {"string", "int"}, exported : BOOLEAN]

\* a struct value with fields of these shapes, all holding a value set before
StructFields(shapes) ==
    [i \in 1..Len(shapes) |->
        [name |-> FieldName(i), tag |-> shapes[i].tag, kind |-> shapes[i].kind,
         exported |-> shapes[i].exported, value |-> OldValue]]

Value(kind) == [kind |-> kind, isNil |-> FALSE, elemKind |-> "none", fields |-> <<>>]
Pointer(isNil, elemKind, fields) ==
    [kind |-> "ptr", isNil |-> isNil, elemKind |-> elemKind, fields |-> fields]

\* untyped nil, 1, "", a struct passed by value, a map; nil pointers; a
\* pointer to an int; pointers to structs
Targets ==
    {Value(k) : k \in {"invalid", "int", "string", "struct", "map"}}
        \cup {Pointer(TRUE, k, <<>>) : k \in {"int", "struct"}}
        \cup {Pointer(FALSE, "int", <<>>)}
        \cup {Pointer(FALSE, "struct", StructFields(sh)) :
                  sh \in SeqsUpTo(FieldShapes, MaxFields)}

\* maps over the tags A and B and a name no field is tagged with
QueryMaps ==
    UNION {[keys -> {QueryX, QueryY}] : keys \in SUBSET {TagA, TagB, TagZ}}

BindInit ==
    /\ v \in Targets
    /\ qmap \in QueryMaps
    /\ queriesAndFields = EmptyMap
    /\ pending = {}
    /\ bindErr = NoError
    /\ bpc = "start"
    /\ ExtractIdle
    /\ SqlIdle
    /\ LoadIdle

BindNext == CheckTarget \/ CollectTags \/ RangeStep \/ RangeEnd

SpecBind == BindInit /\ [][BindNext]_vars

----------------------------------------------------------------------------
(* Claims about loadQueriesIntoStruct, checked under SpecBind *)

BindReturned == bpc = "done"

PointerToStruct == v.kind = "ptr" /\ ~v.isNil /\ v.elemKind = "struct"

TaggedFields == {i \in 1..Len(v.fields) : v.fields[i].tag # EmptyString}

MissingTags == {v.fields[i].tag : i \in TaggedFields} \ DOMAIN qmap

\* C8: for a pointer to a struct whose tagged fields are all settable string
\* fields, with pairwise distinct tags that are exactly the keys of the map,
\* loadQueriesIntoStruct returns nil and every tagged field then holds the map
\* value of its tag, unchanged.
C8_RoundTrip ==
    (/\ BindReturned
     /\ PointerToStruct
     /\ \A i \in TaggedFields : Assignable(v.fields[i])
     /\ \A i, j \in TaggedFields : v.fields[i].tag = v.fields[j].tag => i = j
     /\ {v.fields[i].tag : i \in TaggedFields} = DOMAIN qmap) =>
        /\ bindErr = NoError
        /\ \A i \in TaggedFields : v.fields[i].value = qmap[v.fields[i].tag]

\* two tagged fields were bound, one to the query with white space around it
\* and a line break in it
C8_Witness ==
    /\ BindReturned /\ PointerToStruct
    /\ bindErr = NoError
    /\ Cardinality(TaggedFields) = 2
    /\ DOMAIN qmap = {TagA, TagB}
    /\ \E i \in TaggedFields : v.fields[i].value = QueryY
    /\ \E i \in TaggedFields : v.fields[i].value = QueryX

\* C9 as claimed: if the tag of a tagged field is not in the map, the call
\* fails with the could-not-find-query error naming such a tag.
C9_MissingTagReported ==
    (BindReturned /\ PointerToStruct /\ MissingTags # {}) =>
        /\ bindErr.msg = "could not find query"
        /\ bindErr.arg \in MissingTags

\* C9 as amended: if the tag of a tagged field is not in the map, the call
\* fails, with the could-not-find-query error naming such a tag, or with the
\* field-cannot-be-changed error of a field whose tag is in the map; the
\* latter only when such a field exists, and never for a field whose tag is
\* missing, since the lookup comes before the check of the field.
C9_MissingTagFails ==
    (BindReturned /\ PointerToStruct /\ MissingTags # {}) =>
        /\ bindErr # NoError
        /\ bindErr.wraps = ErrCannotLoadQueries
        /\ \/ /\ bindErr.msg = "could not find query"
              /\ bindErr.arg \in MissingTags
           \/ /\ bindErr.msg = "field cannot be changed or is not a string"
              /\ \E i \in TaggedFields :
                     /\ v.fields[i].name = bindErr.arg
                     /\ v.fields[i].tag \in DOMAIN qmap
                     /\ ~Assignable(v.fields[i])
                     /\ queriesAndFields[v.fields[i].tag] = i

\* a field that is not a string and whose tag is missing was reported as
\* query not found
C9_Witness ==
    /\ BindReturned /\ PointerToStruct
    /\ \E i \in TaggedFields :
           /\ v.fields[i].tag \notin DOMAIN qmap
           /\ v.fields[i].kind = "int"
           /\ bindErr = Errorf("could not find query", v.fields[i].tag)

\* C10: the target is checked first, before the map and the fields: a value
\* that is no pointer fails with "v is not a pointer to a struct", a nil
\* pointer with "v is nil", a pointer to something that is no struct with "v
\* is not a pointer to a struct", whatever the map.
C10_TargetCheckedFirst ==
    (BindReturned /\ ~PointerToStruct) =>
        /\ v.kind # "ptr" => bindErr = NotAPointerToStruct
        /\ (v.kind = "ptr" /\ v.isNil) => bindErr = NilTarget
        /\ (v.kind = "ptr" /\ ~v.isNil) => bindErr = NotAPointerToStruct
        /\ queriesAndFields = EmptyMap
        /\ pending = {}

\* a nil pointer to an int was rejected as nil, with a map that is not empty
C10_Witness ==
    /\ BindReturned
    /\ v.kind = "ptr" /\ v.isNil /\ v.elemKind = "int"
    /\ qmap # EmptyMap
    /\ bindErr = NilTarget

----------------------------------------------------------------------------
(* C11 and C12: fields that carry the same tag *)

\* C11 as claimed, where every tag is in the map: if a tagged field is not a
\* string or cannot be set, the call fails with the field-cannot-be-changed
\* error naming such a field, and the field is left unchanged.
C11_UnassignableFieldReported ==
    (/\ BindReturned /\ PointerToStruct
     /\ MissingTags = {}
     /\ \E i \in TaggedFields : ~Assignable(v.fields[i])) =>
        /\ bindErr.msg = "field cannot be changed or is not a string"
        /\ \E i \in TaggedFields :
               /\ ~Assignable(v.fields[i])
               /\ v.fields[i].name = bindErr.arg
        /\ \A i \in TaggedFields :
               ~Assignable(v.fields[i]) => v.fields[i].value = OldValue

\* C12 as claimed: when the call returns nil, every field with a non-empty
\* tag holds the map value of its tag, also when fields share a tag.
C12_SuccessAssignsEveryTaggedField ==
    (BindReturned /\ PointerToStruct /\ bindErr = NoError) =>
        \A i \in TaggedFields :
            /\ v.fields[i].tag \in DOMAIN qmap
            /\ v.fields[i].value = qmap[v.fields[i].tag]

----------------------------------------------------------------------------
(* findFilesWithExt, cat and the LoadFrom* and MustLoadFrom* functions.     *)
(* A file system is the sequence of the entries fs.WalkDir visits under     *)
(* the root, in its (lexical) order.  An entry has a path, is a directory   *)
(* or a file, may make the walk fail (its directory cannot be read), and,   *)
(* for a file, has data that fs.ReadFile returns unless the read fails.     *)

\* an error of the file system, as returned by fs.WalkDir, fs.ReadFile or
\* os.ReadFile: it does not wrap the sentinel of the package
PathError(op, path) == [wraps |-> "fs.PathError", msg |-> op, arg |-> path]

\* fmt.Errorf("%w: %w", ErrCannotLoadQueries, err)
WrapError(err) == [wraps |-> ErrCannotLoadQueries, msg |-> err.msg, arg |-> err.arg]

\* errors.Is(err, ErrCannotLoadQueries)
IsErrCannotLoadQueries(err) == err.wraps = ErrCannotLoadQueries

ToLowerChar(c) ==
    CASE c = "S" -> "s" [] c = "Q" -> "q" [] c = "L" -> "l" [] OTHER -> c

\* strings.ToLower
ToLower(str) == [i \in 1..Len(str) |-> ToLowerChar(str[i])]

SqlExt == <<".", "s", "q", "l">>

\* WalkDir as it would be if each file were put before the files found so far
RECURSIVE WalkDirPrepend(_, _, _, _)
WalkDirPrepend(entries, ext, i, files) ==
    IF i > Len(entries) THEN [files |-> files, err |-> NoError]
    ELSE IF entries[i].walkErr
    THEN [files |-> <<>>, err |-> WrapError(PathError("readdir", entries[i].path))]
    ELSE IF ~entries[i].isDir /\ ToLower(entries[i].ext) = ext
    THEN WalkDirPrepend(entries, ext, i + 1, <<entries[i].path>> \o files)
    ELSE WalkDirPrepend(entries, ext, i + 1, files)

\* the walk of findFilesWithExt from entry i on, with the files found so far
RECURSIVE WalkDir(_, _, _, _)
WalkDir(entries, ext, i, files) ==
    IF i > Len(entries) THEN [files |-> files, err |-> NoError]
    ELSE IF entries[i].walkErr
    THEN [files |-> <<>>, err |-> WrapError(PathError("readdir", entries[i].path))]
    ELSE IF ~entries[i].isDir /\ ToLower(entries[i].ext) = ext
    THEN WalkDir(entries, ext, i + 1, Append(files, entries[i].path))
    ELSE WalkDir(entries, ext, i + 1, files)

\* findFilesWithExt(fsys, ext)
findFilesWithExt(entries, ext) == WalkDir(entries, ext, 1, <<>>)

\* fs.ReadFile(fsys, filename) and os.ReadFile(filename)
ReadFile(entries, filename) ==
    LET e == entries[CHOOSE i \in 1..Len(entries) : entries[i].path = filename]
    IN  IF e.readable THEN [data |-> e.data, err |-> NoError]
        ELSE [data |-> EmptyString, err |-> PathError("read", filename)]

\* ReadError as it would be if the error of the read were returned as it is
ReadErrorUnwrapped(err) == err

\* the error cat and LoadFromFile return when a read fails
ReadError(err) == WrapError(err)

\* CatFrom as it would be if each text replaced the texts read before it
RECURSIVE CatFromKeepLast(_, _, _, _)
CatFromKeepLast(entries, names, i, texts) ==
    IF i > Len(names) THEN [txt |-> Join(texts, <<"\n">>), err |-> NoError]
    ELSE LET r == ReadFile(entries, names[i])
         IN  IF r.err # NoError
             THEN [txt |-> EmptyString, err |-> ReadError(r.err)]
             ELSE CatFromKeepLast(entries, names, i + 1, <<r.data>>)

\* the loop of cat from file i on, with the texts read so far
RECURSIVE CatFrom(_, _, _, _)
CatFrom(entries, names, i, texts) ==
    IF i > Len(names) THEN [txt |-> Join(texts, <<"\n">>), err |-> NoError]
    ELSE LET r == ReadFile(entries, names[i])
         IN  IF r.err # NoError
             THEN [txt |-> EmptyString, err |-> ReadError(r.err)]
             ELSE CatFrom(entries, names, i + 1, Append(texts, r.data))

\* cat(fsys, filenames)
cat(entries, names) == CatFrom(entries, names, 1, <<>>)

\* return nil, err
ReturnError(err) == [isNil |-> TRUE, fields |-> <<>>, err |-> err]

\* LoadFromFile: os.ReadFile(filename)
LoadFromFile ==
    /\ lpc = "start"
    /\ entry = "File"
    /\ LET r == ReadFile(fsys, fsys[1].path)
       IN  IF r.err # NoError
           THEN /\ loaded' = ReturnError(ReadError(r.err))
                /\ lpc' = "loaded"
                /\ sql' = sql
           ELSE /\ sql' = r.data
                /\ lpc' = "call"
                /\ loaded' = loaded
    /\ UNCHANGED <<items, rawQueries, idx, queries, ret, pc, sqlVars, bindVars,
                   entry, fsys, filenames, outcome>>

\* LoadFromDir and LoadFromFS: findFilesWithExt(fsys, ".sql")
FindFiles ==
    /\ lpc = "start"
    /\ entry \in {"Dir", "FS"}
    /\ LET r == findFilesWithExt(fsys, SqlExt)
       IN  IF r.err # NoError
           THEN /\ loaded' = ReturnError(r.err)
                /\ lpc' = "loaded"
                /\ filenames' = filenames
           ELSE /\ filenames' = r.files
                /\ lpc' = "cat"
                /\ loaded' = loaded
    /\ UNCHANGED <<extractVars, sqlVars, bindVars, entry, fsys, outcome>>

\* LoadFromDir and LoadFromFS: cat(fsys, files)
CatFiles ==
    /\ lpc = "cat"
    /\ LET r == cat(fsys, filenames)
       IN  IF r.err # NoError
           THEN /\ loaded' = ReturnError(r.err)
                /\ lpc' = "loaded"
                /\ sql' = sql
           ELSE /\ sql' = r.txt
                /\ lpc' = "call"
                /\ loaded' = loaded
    /\ UNCHANGED <<items, rawQueries, idx, queries, ret, pc, sqlVars, bindVars,
                   entry, fsys, filenames, outcome>>

\* LoadFromString: var v V, and the call of ExtractQueryMap(s); v holds &v
\* from the start, the zero value of the type argument
LoadFromString ==
    /\ lpc = "call"
    /\ pc' = "start"
    /\ lpc' = "extract"
    /\ UNCHANGED <<items, sql, rawQueries, idx, queries, ret, sqlVars, bindVars,
                   entry, fsys, filenames, loaded, outcome>>

\* LoadFromString, when ExtractQueryMap has returned: return nil, err, or
\* the call of loadQueriesIntoStruct(queries, &v)
LoadQueries ==
    /\ lpc = "extract"
    /\ pc = "done"
    /\ IF ret.err # NoError
       THEN /\ loaded' = ReturnError(ret.err)
            /\ lpc' = "loaded"
            /\ UNCHANGED <<qmap, bpc>>
       ELSE /\ qmap' = ret.queries
            /\ bpc' = "start"
            /\ lpc' = "bind"
            /\ loaded' = loaded
    /\ UNCHANGED <<extractVars, sqlVars, v, queriesAndFields, pending, bindErr,
                   entry, fsys, filenames, outcome>>

\* LoadResult as it would be if &v were returned together with the error
LoadResultKeepPointer(target, err) ==
    [isNil |-> FALSE, fields |-> target.fields, err |-> err]

\* what LoadFromString returns when loadQueriesIntoStruct has returned err
LoadResult(target, err) ==
    IF err # NoError THEN ReturnError(err)
    ELSE [isNil |-> FALSE, fields |-> target.fields, err |-> NoError]

\* LoadFromString, when loadQueriesIntoStruct has returned
ReturnLoaded ==
    /\ lpc = "bind"
    /\ bpc = "done"
    /\ loaded' = LoadResult(v, bindErr)
    /\ lpc' = "loaded"
    /\ UNCHANGED <<extractVars, sqlVars, bindVars, entry, fsys, filenames, outcome>>

\* MustOutcome as it would be if the error were dropped and nil returned
MustOutcomeSilent(l) ==
    [panicked |-> FALSE, value |-> NoError, isNil |-> l.isNil, fields |-> l.fields]

\* the body of each Must* function after its LoadFrom* call: panic(err) if
\* err # nil, return v otherwise
MustOutcome(l) ==
    IF l.err # NoError
    THEN [panicked |-> TRUE, value |-> l.err, isNil |-> TRUE, fields |-> <<>>]
    ELSE [panicked |-> FALSE, value |-> NoError, isNil |-> l.isNil, fields |-> l.fields]

\* MustLoadFromString, MustLoadFromFile, MustLoadFromDir, MustLoadFromFS
MustLoad ==
    /\ lpc = "loaded"
    /\ outcome' = MustOutcome(loaded)
    /\ lpc' = "done"
    /\ UNCHANGED <<extractVars, sqlVars, bindVars, entry, fsys, filenames, loaded>>

----------------------------------------------------------------------------
(* The texts, file systems and type arguments the LoadFrom* functions are   *)
(* applied to *)

MaxFiles == 2

\* "-- query: A\nS"
FileA == ItemsText(<<NameItem(TagA), LineItem(<<"S">>)>>)
\* "-- query: A\nU": the name of FileA with another body
FileA2 == ItemsText(<<NameItem(TagA), LineItem(<<"U">>)>>)
\* "\n-- query: B\nT\n": white space before the marker and after the body
FileB == <<"\n">> \o ItemsText(<<NameItem(TagB), LineItem(<<"T">>)>>) \o <<"\n">>
\* "T\n-- query: B\nT": a line of text before the first marker
FilePreludeB == ItemsText(<<LineItem(<<"T">>), NameItem(TagB), LineItem(<<"T">>)>>)
\* "-- query: a-\nS": a name that is not valid
FileBad == ItemsText(<<NameItem(<<"a", "-">>), LineItem(<<"S">>)>>)
\* "S": no marker
FileNoMarker == <<"S">>

FileTexts == {FileA, FileA2, FileB, FilePreludeB, FileBad, FileNoMarker, EmptyString}

\* the texts LoadFromString is called with: those of the files, two of them
\* one after the other, and the scenarios
LoadTexts ==
    FileTexts \cup ScenarioTexts
        \cup {Join(<<s, t>>, <<"\n">>) : s \in {FileA, FileB}, t \in FileTexts}

File(ext, data, readable) ==
    [ext |-> ext, isDir |-> FALSE, walkErr |-> FALSE, readable |-> readable,
     data |-> data]
Dir(ext, walkErr) ==
    [ext |-> ext, isDir |-> TRUE, walkErr |-> walkErr, readable |-> FALSE,
     data |-> EmptyString]

\* files named *.sql with each text; one named *.SQL, one named *.txt, one
\* that cannot be read
FileShapes ==
    {File(SqlExt, t, TRUE) : t \in FileTexts}
        \cup {File(<<".", "S", "Q", "L">>, FileA2, TRUE),
              File(<<".", "t", "x", "t">>, FileBad, TRUE),
              File(SqlExt, FileA, FALSE)}

\* a directory named *.sql, and a directory that cannot be read
DirShapes == {Dir(SqlExt, FALSE), Dir(EmptyString, TRUE)}

\* the path of the i-th entry of the walk: a, b, c, ... with its extension
PathOf(i, ext) == <<CHOOSE c \in {"a", "b", "c", "d"} : c = <<"a", "b", "c", "d">>[i]>> \o ext

WithPaths(shapes) ==
    [i \in 1..Len(shapes) |->
        [path |-> PathOf(i, shapes[i].ext), ext |-> shapes[i].ext,
         isDir |-> shapes[i].isDir, walkErr |-> shapes[i].walkErr,
         readable |-> shapes[i].readable, data |-> shapes[i].data]]

FileSystems == {WithPaths(sh) : sh \in SeqsUpTo(FileShapes \cup DirShapes, MaxFiles)}

\* the struct a type argument declares, with the zero value in each field
ZeroFields(shapes) ==
    [i \in 1..Len(shapes) |->
        [name |-> FieldName(i), tag |-> shapes[i].tag, kind |-> shapes[i].kind,
         exported |-> shapes[i].exported, value |-> EmptyString]]

StringField(tag, exported) == [tag |-> tag, kind |-> "string", exported |-> exported]

\* &v for the type arguments int, struct{}, and structs with a field tagged
\* A, with fields tagged A and B, with an untagged field, with a field that
\* is not exported, with two fields tagged A
LoadTypes ==
    {Pointer(FALSE, "int", <<>>)}
        \cup {Pointer(FALSE, "struct", ZeroFields(sh)) :
                  sh \in {<<>>,
                          <<StringField(TagA, TRUE)>>,
                          <<StringField(TagA, TRUE), StringField(TagB, TRUE)>>,
                          <<StringField(EmptyString, TRUE), StringField(TagB, TRUE)>>,
                          <<StringField(TagA, TRUE), StringField(TagB, FALSE)>>,
                          <<StringField(TagA, TRUE), StringField(TagA, TRUE)>>}}

LoadInit ==
    /\ \/ /\ entry = "String"
          /\ sql \in LoadTexts
          /\ fsys = <<>>
          /\ lpc = "call"
       \/ /\ entry = "File"
          /\ sql = EmptyString
          /\ fsys \in {WithPaths(<<f>>) : f \in FileShapes}
          /\ lpc = "start"
       \/ /\ entry \in {"Dir", "FS"}
          /\ sql = EmptyString
          /\ fsys \in FileSystems
          /\ lpc = "start"
    /\ v \in LoadTypes
    /\ items = <<>>
    /\ rawQueries = <<>>
    /\ idx = 0
    /\ queries = EmptyMap
    /\ ret = NotReturned
    /\ pc = "idle"
    /\ qmap = EmptyMap
    /\ queriesAndFields = EmptyMap
    /\ pending = {}
    /\ bindErr = NoError
    /\ bpc = "idle"
    /\ filenames = <<>>
    /\ loaded = NothingLoaded
    /\ outcome = NoOutcome
    /\ SqlIdle

LoadNext ==
    \/ LoadFromFile \/ FindFiles \/ CatFiles \/ LoadFromString
    \/ SplitSql \/ LoopBody \/ LoopEnd
    \/ LoadQueries
    \/ CheckTarget \/ CollectTags \/ RangeStep \/ RangeEnd
    \/ ReturnLoaded \/ MustLoad

SpecLoad == LoadInit /\ [][LoadNext]_vars

----------------------------------------------------------------------------
(* Claims about the LoadFrom* and MustLoadFrom* functions, checked under    *)
(* SpecLoad *)

\* the LoadFrom* call has returned
Loaded == lpc \in {"loaded", "done"}

\* LoadFromString was reached, so that sql is the text it was called with
TextLoaded == Loaded /\ pc # "idle"

\* the first lines of the pieces after the first: the names a text declares
PieceNames(text) ==
    LET raw == RegexpSplit(text, [i \in 1..Len(text) |-> queryNamePattern(text, i)])
    IN  {PieceLines(raw[k])[1] : k \in 2..Len(raw)}

\* C13: LoadFromString returns a non-nil pointer with a nil error or a nil
\* pointer with a non-nil error; it returns nil and an error when a name of
\* the text is not valid, when the tag of a field is not a name of the text,
\* and when the type argument is not a struct; a pointer is returned only
\* when the binding has visited every tag without error.
C13_PointerOrError ==
    TextLoaded =>
        /\ loaded.isNil <=> loaded.err # NoError
        /\ (\E n \in PieceNames(sql) : ~validQueryNamePattern(n)) => loaded.isNil
        /\ ~PointerToStruct => loaded.isNil
        /\ (PointerToStruct /\ \E i \in TaggedFields :
                v.fields[i].tag \notin PieceNames(sql)) => loaded.isNil
        /\ ~loaded.isNil =>
               /\ ret.err = NoError /\ bindErr = NoError
               /\ bpc = "done" /\ pending = {}
               /\ loaded.fields = v.fields

\* a field was assigned before the range met a tag that the text does not
\* declare, and LoadFromString returned nil and the error
C13_Witness ==
    /\ TextLoaded
    /\ loaded.isNil
    /\ loaded.err = Errorf("could not find query", TagB)
    /\ PointerToStruct
    /\ \E i \in TaggedFields : v.fields[i].value # EmptyString

\* LoadFromDir or LoadFromFS has read its files and segmented their join
Catted == entry \in {"Dir", "FS"} /\ pc = "done"

\* the texts of the files cat has joined, in walk order
FilesRead == [i \in 1..Len(filenames) |-> ReadFile(fsys, filenames[i]).data]

\* the maps of the texts taken one by one, merged in their order
RECURSIVE MergeFrom(_, _, _)
MergeFrom(texts, i, m) ==
    IF i > Len(texts) THEN m
    ELSE LET q == ExtractQueryMap(texts[i]).queries
         IN  MergeFrom(texts, i + 1,
                 [n \in (DOMAIN m) \cup (DOMAIN q) |-> IF n \in DOMAIN q THEN q[n] ELSE m[n]])

EachSegments(texts) ==
    \A i \in 1..Len(texts) : ExtractQueryMap(texts[i]).err = NoError

NamesDisjoint(texts) ==
    \A i, j \in 1..Len(texts) :
        i < j => (DOMAIN ExtractQueryMap(texts[i]).queries)
                     \cap (DOMAIN ExtractQueryMap(texts[j]).queries) = {}

\* the text has only white space before its first marker, or no marker and
\* only white space
NoPrelude(text) ==
    TrimSpace(RegexpSplit(text, [i \in 1..Len(text) |-> queryNamePattern(text, i)])[1])
        = EmptyString

\* C14 as claimed: when each file text segments without error and the names
\* of the files are pairwise disjoint, segmenting the join of the texts
\* gives the merge of the maps of the texts.
C14_JoinEqualsMerge ==
    (Catted /\ EachSegments(FilesRead) /\ NamesDisjoint(FilesRead)) =>
        ret = [queries |-> MergeFrom(FilesRead, 1, EmptyMap), isNil |-> FALSE,
               err |-> NoError]

\* C14, amended: the same, when every text after the first has only white
\* space before its first marker.
C14_JoinEqualsMergeWithoutPrelude ==
    (/\ Catted /\ EachSegments(FilesRead) /\ NamesDisjoint(FilesRead)
     /\ \A i \in 2..Len(FilesRead) : NoPrelude(FilesRead[i])) =>
        ret = [queries |-> MergeFrom(FilesRead, 1, EmptyMap), isNil |-> FALSE,
               err |-> NoError]

\* two files that declare a name each were joined, the second one with
\* white space before its marker
C14_Witness ==
    /\ Catted /\ EachSegments(FilesRead) /\ NamesDisjoint(FilesRead)
    /\ Len(FilesRead) = 2
    /\ FilesRead[2] = FileB
    /\ DOMAIN ExtractQueryMap(FilesRead[1]).queries # {}
    /\ DOMAIN ret.queries = {TagA, TagB}

\* ExtractQueryMap as a function and the actions of ExtractQueryMap agree
ExtractQueryMapAgrees == Returned => ret = ExtractQueryMap(sql)


\* the texts of the files found, in the order of the walk of the file system
FilesVisited ==
    LET found == {filenames[k] : k \in 1..Len(filenames)}
        IsFound(e) == e.path \in found
        es == SelectSeq(fsys, IsFound)
    IN  [i \in 1..Len(es) |-> es[i].data]

\* the names the text of a file declares
NamesOf(text) == DOMAIN ExtractQueryMap(text).queries

\* files i and j, in walk order, declare the name n, no file after j does,
\* and no file after j has text before its first marker
LaterOfTwo(texts, i, j, n) ==
    /\ i < j
    /\ n \in NamesOf(texts[i]) \cap NamesOf(texts[j])
    /\ \A k \in (j + 1)..Len(texts) : n \notin NamesOf(texts[k]) /\ NoPrelude(texts[k])

\* C15: when two files visited by LoadFromFS or LoadFromDir declare the same
\* name, no error arises from it and the name is bound to the body of the
\* file visited later, in the map and in the field tagged with the name.
C15_LastVisitedWins ==
    (Catted /\ EachSegments(FilesVisited)) =>
        \A i, j \in 1..Len(FilesVisited) : \A n \in NamesOf(FilesVisited[j]) :
            LaterOfTwo(FilesVisited, i, j, n) =>
                /\ ret.err = NoError
                /\ ret.queries[n] = ExtractQueryMap(FilesVisited[j]).queries[n]
                /\ (Loaded /\ ~loaded.isNil /\ n \in DOMAIN queriesAndFields) =>
                       loaded.fields[queriesAndFields[n]].value
                           = ExtractQueryMap(FilesVisited[j]).queries[n]

\* a.sql and b.sql both declare A; the field tagged A holds the body of b.sql
C15_Witness ==
    /\ Loaded /\ ~loaded.isNil
    /\ entry = "FS"
    /\ FilesVisited = <<FileA, FileA2>>
    /\ Len(loaded.fields) = 1
    /\ loaded.fields[1].tag = TagA
    /\ loaded.fields[1].value = <<"U">>


\* the Must* call has returned or panicked
MustDone == lpc = "done"

\* C16: each Must* function panics exactly when its LoadFrom* call returns
\* a non-nil error, and with that error; otherwise it returns the pointer
\* the LoadFrom* call returned.  Nothing is returned or raised before.
C16_MustPanicsIffError ==
    /\ entry \in {"String", "File", "Dir", "FS"}
    /\ MustDone =>
           /\ outcome.panicked <=> loaded.err # NoError
           /\ outcome.panicked => outcome.value = loaded.err /\ outcome.isNil
           /\ ~outcome.panicked =>
                  /\ outcome.isNil = loaded.isNil
                  /\ outcome.fields = loaded.fields
                  /\ ~outcome.isNil
    /\ ~MustDone => outcome = NoOutcome

\* MustLoadFromFile has panicked with the error of a file that cannot be read
C16_Witness ==
    /\ MustDone
    /\ entry = "File"
    /\ outcome.panicked
    /\ outcome.value = WrapError(PathError("read", fsys[1].path))


\* nil, or an error for which errors.Is(err, ErrCannotLoadQueries) holds
NilOrWrapsSentinel(err) == err = NoError \/ IsErrCannotLoadQueries(err)

\* C17: every non-nil error returned by ExtractQueryMap,
\* loadQueriesIntoStruct, findFilesWithExt, cat and the LoadFrom* functions
\* wraps ErrCannotLoadQueries, and so does the value a Must* function
\* panics with.
C17_ErrorsWrapSentinel ==
    /\ NilOrWrapsSentinel(ret.err)
    /\ NilOrWrapsSentinel(bindErr)
    /\ NilOrWrapsSentinel(findFilesWithExt(fsys, SqlExt).err)
    /\ NilOrWrapsSentinel(cat(fsys, findFilesWithExt(fsys, SqlExt).files).err)
    /\ NilOrWrapsSentinel(loaded.err)
    /\ NilOrWrapsSentinel(outcome.value)
    /\ IsErrCannotLoadQueries(NilTarget)
    /\ IsErrCannotLoadQueries(NotAPointerToStruct)

\* LoadFromDir has returned the error of a directory that cannot be read,
\* and the error wraps the sentinel
C17_Witness ==
    /\ Loaded
    /\ entry = "Dir"
    /\ loaded.err.msg = "readdir"
    /\ IsErrCannotLoadQueries(loaded.err)

----------------------------------------------------------------------------
(* Claims about line endings and about the white space around names and     *)
(* markers, checked under Spec *)

\* the text with every "\n" replaced by "\r\n"
RECURSIVE ToCRLF(_)
ToCRLF(text) ==
    IF Len(text) = 0 THEN EmptyString
    ELSE (IF Head(text) = "\n" THEN <<"\r", "\n">> ELSE <<Head(text)>>)
             \o ToCRLF(Tail(text))

NoCarriageReturn(text) == \A i \in 1..Len(text) : text[i] # "\r"

\* C18: for a text with LF line endings and no carriage return,
\* ExtractQueryMap returns for the text with CRLF line endings what it
\* returns for the text: the same error, or the same map with the bodies
\* joined by "\n".
C18_LineEndingIndependent ==
    (Returned /\ NoCarriageReturn(sql)) => ExtractQueryMap(ToCRLF(sql)) = ret

\* a text with a body of two lines has been segmented; its CRLF form has
\* three line breaks and gives the same body
C18_Witness ==
    /\ Returned /\ FromItems
    /\ items = <<NameItem(<<"A">>), LineItem(<<"S">>), LineItem(<<"S">>), NameItem(<<"B">>)>>
    /\ ret.queries = (<<"A">> :> <<"S", "\n", "S">>) @@ (<<"B">> :> EmptyString)
    /\ ToCRLF(sql) # sql
    /\ ExtractQueryMap(ToCRLF(sql)) = ret


\* the first line of piece k of the split, trimmed
TrimmedName(k) == TrimSpace(PieceLines(rawQueries[k])[1])

\* C19 as claimed: the declared name of a segment is its first line with the
\* white space around it trimmed; when every such name is valid, the text is
\* accepted and the queries are stored under the trimmed names.
C19_NameLineTrimmed ==
    (Returned /\ \A k \in 2..Len(rawQueries) : validQueryNamePattern(TrimmedName(k))) =>
        /\ ret.err = NoError
        /\ DOMAIN ret.queries = {TrimmedName(k) : k \in 2..Len(rawQueries)}

\* the positions of the text where the marker stands
MarkerPositions(text) == {i \in 1..Len(text) : HasPrefixAt(text, i, Marker)}

\* C20: every marker splits the text, whatever white space runs before it,
\* and the split takes the marker and that run away: no piece before a
\* marker ends with white space of the pattern, and no returned name or body
\* holds the marker.
C20_MarkerAndRunRemoved ==
    pc # "start" =>
        /\ Len(rawQueries) = Cardinality(MarkerPositions(sql)) + 1
        /\ \A k \in 1..(Len(rawQueries) - 1) :
               \/ rawQueries[k] = EmptyString
               \/ rawQueries[k][Len(rawQueries[k])] \notin PatternSpace
        /\ \A k \in 1..Len(rawQueries) : ~ContainsMarker(rawQueries[k])
        /\ (Returned /\ ret.err = NoError) =>
               \A n \in DOMAIN ret.queries :
                   ~ContainsMarker(n) /\ ~ContainsMarker(ret.queries[n])

\* the marker of A stood after the body of B and a form feed and a vertical
\* tab; B has its body without them and A was recognised
C20_Witness ==
    /\ Returned
    /\ sql = Marker \o <<" ", "B", "\n", "T", "\f", VT>> \o Marker \o <<" ", "A", "\n", "S">>
    /\ rawQueries = <<EmptyString, <<" ", "B", "\n", "T">>, <<" ", "A", "\n", "S">>>>
    /\ ret.queries = (<<"A">> :> <<"S">>) @@ (<<"B">> :> <<"T">>)


\* position i of the text is preceded on its line by white space only
AtLineStart(text, i) ==
    \A j \in 1..(i - 1) :
        (\A k \in j..(i - 1) : text[k] # "\n") => text[j] \in PatternSpace

\* C21 as claimed: the text is split at the markers that stand at the start
\* of a line, after white space only, and at no other marker.
C21_SplitAtLineStartOnly ==
    pc # "start" =>
        Len(rawQueries)
            = Cardinality({i \in MarkerPositions(sql) : AtLineStart(sql, i)}) + 1


\* C22: a marker followed by a valid name and nothing else, on its line or
\* on the line after it, gives the name an entry with the empty string as
\* body (when no other name of the text is rejected and the name is not
\* declared again later).
C22_NameAloneEmptyBody ==
    Returned =>
        \A k \in 2..Len(rawQueries) :
            (/\ WellFormedName(TrimSpace(rawQueries[k]))
             /\ \A j \in 2..Len(rawQueries) :
                    validQueryNamePattern(PieceLines(rawQueries[j])[1])
             /\ \A j \in (k + 1)..Len(rawQueries) :
                    PieceLines(rawQueries[j])[1] # TrimSpace(rawQueries[k])) =>
                /\ ret.err = NoError
                /\ TrimSpace(rawQueries[k]) \in DOMAIN ret.queries
                /\ ret.queries[TrimSpace(rawQueries[k])] = EmptyString

\* " -- query:\nA" has been segmented: A stands on the line after the
\* marker and has the empty body
C22_Witness ==
    /\ Returned
    /\ sql = <<" ">> \o Marker \o <<"\n", "A">>
    /\ ret = [queries |-> MapPut(EmptyMap, <<"A">>, EmptyString), isNil |-> FALSE,
              err |-> NoError]


\* the text from its first marker on, the white space before the marker
\* included; the empty text when there is no marker
WithoutPrelude(text) ==
    LET raw == RegexpSplit(text, [i \in 1..Len(text) |-> queryNamePattern(text, i)])
    IN  IF Len(raw) <= 1 THEN EmptyString
        ELSE SubSeq(text, Len(raw[1]) + 1, Len(text))

\* C23: the text before the first marker is discarded: ExtractQueryMap
\* returns what it returns for the text without it, so that this text is not
\* taken as a name, causes no error and is in no returned name or body.
C23_PreludeDiscarded == Returned => ret = ExtractQueryMap(WithoutPrelude(sql))

\* a text with a prelude that is not a valid name, followed by a valid
\* segment, has been segmented without error
C23_Witness ==
    /\ Returned
    /\ Len(rawQueries) > 1
    /\ rawQueries[1] # EmptyString
    /\ ~validQueryNamePattern(rawQueries[1])
    /\ ret.err = NoError
    /\ ret.queries # EmptyMap


\* the pieces after the first whose first line is not a valid name
InvalidPieces ==
    {k \in 2..Len(rawQueries) : ~validQueryNamePattern(PieceLines(rawQueries[k])[1])}

\* C24: when names of the text are not valid, ExtractQueryMap stops at the
\* first of them in the order of the text: the error names the first line
\* of that piece, the loop has not gone past it, and only the names before
\* it were stored on the way.
C24_StopsAtFirstInvalidName ==
    (Returned /\ InvalidPieces # {}) =>
        LET k == Min(InvalidPieces)
        IN  /\ ret.err = Errorf("invalid query name", PieceLines(rawQueries[k])[1])
            /\ ret.err.wraps = "cannot load queries"
            /\ idx = k
            /\ DOMAIN queries = {PieceLines(rawQueries[j])[1] : j \in 2..(k - 1)}

\* "-- query: A\n-- query: a-\n-- query: \n-- query: B": the error names
\* "a-", the first of the two names that are not valid, and B was not read
C24_Witness ==
    /\ Returned /\ FromItems
    /\ items = <<NameItem(<<"A">>), NameItem(<<"a", "-">>), NameItem(EmptyString),
                 NameItem(<<"B">>)>>
    /\ Cardinality(InvalidPieces) = 2
    /\ ret.err = Errorf("invalid query name", <<"a", "-">>)
    /\ DOMAIN queries = {<<"A">>}

----------------------------------------------------------------------------
(* C25 and C26: the fields and keys that take no part, and the order of the *)
(* range, checked under SpecBind *)

\* the fields of the target without a query tag
UntaggedFields == {i \in 1..Len(v.fields) : v.fields[i].tag = EmptyString}

\* the tags the range visits and that make the call fail
FailingTags ==
    {t \in DOMAIN TagIndex(v.fields) :
        t \notin DOMAIN qmap \/ ~Assignable(v.fields[TagIndex(v.fields)[t]])}

\* C25: fields without a tag keep their value in every state of the call and
\* are never the cause of an error, whatever their type and settability;
\* the call succeeds exactly when no visited tag fails, whatever other keys
\* the map holds, and no field receives the value of a key that is not its
\* tag.
C25_UntaggedFieldsAndOtherKeysIgnored ==
    PointerToStruct =>
        /\ \A i \in UntaggedFields : v.fields[i].value = OldValue
        /\ \A i \in UntaggedFields : bindErr.arg # v.fields[i].name
        /\ bindErr.msg = "could not find query" =>
               \E i \in TaggedFields : bindErr.arg = v.fields[i].tag
        /\ BindReturned => (bindErr = NoError <=> FailingTags = {})
        /\ \A i \in TaggedFields :
               \/ v.fields[i].value = OldValue
               \/ /\ v.fields[i].tag \in DOMAIN qmap
                  /\ v.fields[i].value = qmap[v.fields[i].tag]

\* the call has succeeded for a struct with an unexported int field without
\* tag and a tagged field, and a map with a key that is no tag
C25_Witness ==
    /\ BindReturned /\ PointerToStruct
    /\ bindErr = NoError
    /\ TagZ \in DOMAIN qmap
    /\ TaggedFields # {}
    /\ \E i \in UntaggedFields :
           /\ v.fields[i].kind = "int"
           /\ ~v.fields[i].exported
           /\ v.fields[i].value = OldValue


\* the results the range over queriesAndFields can end with, from the tags
\* pend not visited yet, over the orders in which Go may hand them out
RECURSIVE RangeOutcomes(_, _, _, _)
RangeOutcomes(q, qf, fields, pend) ==
    IF pend = {} THEN {[err |-> NoError, fields |-> fields]}
    ELSE UNION {LET e == VisitError(q, fields, qf[t], t)
                IN  IF e # NoError THEN {[err |-> e, fields |-> fields]}
                    ELSE RangeOutcomes(q, qf, SetString(fields, qf[t], q[t]), pend \ {t}) :
                t \in pend}

\* C26 as claimed: for a given map and target, loadQueriesIntoStruct has one
\* possible result: the error returned and the values the fields are left
\* with do not depend on the run.
C26_Deterministic ==
    bpc = "range" =>
        Cardinality(RangeOutcomes(qmap, queriesAndFields, v.fields, pending)) = 1

====
